---- MODULE Spec2Model ----
(***************************************************************************)
(* State-machine model of StoryFramework (src/unnamed/part_001): the beat  *)
(* registry, beat navigation with skip flags, the per-beat progress        *)
(* interval, pause/unpause, end of story and restart.                      *)
(*                                                                         *)
(* The object's fields are the variables.  Every method is an operator on  *)
(* a record of those fields that returns the record after the call, so     *)
(* that a method calling another method (nextBeat -> showBeat -> setState) *)
(* is composed exactly as in the source.  A thrown exception is the field  *)
(* exc of the returned record: the fields assigned before the throw keep   *)
(* their new values and the rest of the handler is not run.                *)
(***************************************************************************)
EXTENDS Integers, Sequences, FiniteSets, TLC

VARIABLES
    storyBeats,              \* Map id -> state, in insertion order: Seq of [id, state]
    settings,                \* merged settings (fixed at construction)
    currentState,            \* this.currentState
    currentStoryBeatIndex,   \* this.currentStoryBeatIndex
    currentStoryBeatId,      \* this.currentStoryBeatId
    forceManualControl,      \* this.forceManualControl
    paused,                  \* this.paused
    onPauseTimestamp,        \* this.onPauseTimestamp, relative to the present
    controlsDisabled,        \* this.controlsDisabled
    storyEnded,              \* this.storyEnded
    storyStarted,            \* this.storyStarted
    controlsHelpScreenShown, \* this.controlsHelpScreenShown
    storyBeatIntervalId,     \* this.storyBeatIntervalId (0 for undefined)
    timers,                  \* the intervals armed with window.setInterval
    restartBtnShown,         \* DOM: .add-ds-restart-btn faded in
    scrollDownCursorShown,   \* DOM: .add-ds-scroll-down-icon faded in
    scrollTimeouts,          \* pending setTimeout(scrollTop) callbacks
    initialized,             \* this.initialized
    indicators,              \* DOM: width of .add-ds-ind-time of each indicator
    hooks,                   \* this.hooks: function name -> callbacks, in order
    endStoryRuns,            \* history: runs of endStory since construction/restart
    lastOp                   \* history: the last call, the index it started
                             \* from and how it returned

vars == <<storyBeats, settings, currentState, currentStoryBeatIndex,
          currentStoryBeatId, forceManualControl, paused, onPauseTimestamp,
          controlsDisabled, storyEnded, storyStarted, controlsHelpScreenShown,
          storyBeatIntervalId, timers, restartBtnShown,
          scrollDownCursorShown, scrollTimeouts, initialized, indicators,
          hooks, endStoryRuns, lastOp>>

-----------------------------------------------------------------------------
(* Bounds of the model.                                                    *)

\* Largest number of beats the environment registers.
MaxBeats == 3
\* Largest step argument passed to nextBeat / previousBeat.
MaxStep == 2
\* Longest time, in interval periods, an armed interval is followed.
MaxTicks == 4
\* Largest number of endStory runs followed between two restarts.
MaxEndRuns == 2
\* Largest number of pauses followed while one interval is armed.
MaxPauses == 2
\* Largest number of callbacks registered with addHook.
MaxHooks == 2

-----------------------------------------------------------------------------
(* Program constants.                                                      *)

\* const updateInterval = 15;
updateInterval == 15
\* if (delta > 250)
holdThreshold == 250
\* Time is measured from the present instant: Date.now() is 0, a stored
\* timestamp is zero or negative, and the passing of d time units moves
\* every stored timestamp d further into the past (see Elapse).
DateNow == 0
\* this.onPauseTimestamp = null
NullTimestamp == 1
\* Every timestamp more than holdThreshold in the past, the 0 the
\* constructor stores in onPauseTimestamp among them: the code only asks
\* whether Date.now() minus the timestamp exceeds holdThreshold.
LongAgo == -(holdThreshold + 1)
\* this.storyBeatIntervalId = undefined
UndefinedIntervalId == 0

-----------------------------------------------------------------------------
(* Values.                                                                 *)

\* A beat reference as showBeat receives it: a number, a string or neither.
Num(n) == [type |-> "number", num |-> n, str |-> ""]
Str(x) == [type |-> "string", num |-> 0, str |-> x]
Other == [type |-> "other", num |-> 0, str |-> ""]

\* beatKeys[index] of an index outside the registry, and get() of it.
UndefinedId == "undefined"
UndefinedState == [defined |-> FALSE, skip |-> FALSE, disableControls |-> "absent"]
\* this.currentState = {}
EmptyState == [defined |-> TRUE, skip |-> FALSE, disableControls |-> "absent"]

\* A beat's state object: the skip flag (absent reads as false through ??)
\* and the disableControls field (true, false or absent).
BeatState(skip, dc) == [defined |-> TRUE, skip |-> skip, disableControls |-> dc]

IdNames == <<"a", "b", "c", "d", "e", "f", "g", "h">>
BeatIds == {IdNames[i] : i \in 1..MaxBeats}

Min(a, b) == IF a < b THEN a ELSE b

-----------------------------------------------------------------------------
(* The object as a record, and back.                                       *)

\* History of one call of the interval callback: whether it found
\* progress >= 100 and, if so, for which beat, how long after the interval
\* was armed, how much of that time was spent paused and how many calls of
\* the callback found the story paused, in how many pauses.
NoCompletion ==
    [done |-> FALSE, beatIndex |-> 0, wall |-> 0, pausedTime |-> 0,
     pausedCalls |-> 0, pauses |-> 0]

\* appHtml: the holder contains the html of getAppHtml() (the indicator
\* holder, the restart button, the scroll-down icon), which init() appends;
\* between two calls that is the case exactly when initialized is true.
Self ==
    [storyBeats |-> storyBeats, settings |-> settings,
     currentState |-> currentState,
     currentStoryBeatIndex |-> currentStoryBeatIndex,
     currentStoryBeatId |-> currentStoryBeatId,
     forceManualControl |-> forceManualControl,
     paused |-> paused, onPauseTimestamp |-> onPauseTimestamp,
     controlsDisabled |-> controlsDisabled,
     storyEnded |-> storyEnded, storyStarted |-> storyStarted,
     controlsHelpScreenShown |-> controlsHelpScreenShown,
     storyBeatIntervalId |-> storyBeatIntervalId,
     timers |-> timers,
     restartBtnShown |-> restartBtnShown,
     scrollDownCursorShown |-> scrollDownCursorShown,
     scrollTimeouts |-> scrollTimeouts,
     initialized |-> initialized, indicators |-> indicators,
     hooks |-> hooks,
     endStoryRuns |-> endStoryRuns,
     exc |-> "", logged |-> FALSE, completion |-> NoCompletion,
     calls |-> <<>>, retries |-> 0,
     appHtml |-> initialized]

Commit(r, op) ==
    /\ storyBeats' = r.storyBeats
    /\ settings' = r.settings
    /\ currentState' = r.currentState
    /\ currentStoryBeatIndex' = r.currentStoryBeatIndex
    /\ currentStoryBeatId' = r.currentStoryBeatId
    /\ forceManualControl' = r.forceManualControl
    /\ paused' = r.paused
    /\ onPauseTimestamp' = r.onPauseTimestamp
    /\ controlsDisabled' = r.controlsDisabled
    /\ storyEnded' = r.storyEnded
    /\ storyStarted' = r.storyStarted
    /\ controlsHelpScreenShown' = r.controlsHelpScreenShown
    /\ storyBeatIntervalId' = r.storyBeatIntervalId
    /\ timers' = r.timers
    /\ restartBtnShown' = r.restartBtnShown
    /\ scrollDownCursorShown' = r.scrollDownCursorShown
    /\ scrollTimeouts' = r.scrollTimeouts
    /\ initialized' = r.initialized
    /\ indicators' = r.indicators
    /\ hooks' = r.hooks
    /\ endStoryRuns' = r.endStoryRuns
    /\ lastOp' = [op |-> op, exc |-> r.exc, logged |-> r.logged,
                  completion |-> r.completion, from |-> currentStoryBeatIndex,
                  calls |-> r.calls]

\* throw: the handler stops here, with the fields as assigned so far.
Throw(s, e) == [s EXCEPT !.exc = e]
\* console.error(...): the call goes on (or returns) without an exception.
ConsoleError(s) == [s EXCEPT !.logged = TRUE]
\* History: the overridable methods and hook callbacks a call has invoked,
\* in order.
Called(s, name) == [s EXCEPT !.calls = Append(@, name)]
\* History: one more recursive call of nextBeat / previousBeat with ++step.
Retried(s) == [s EXCEPT !.retries = @ + 1]

-----------------------------------------------------------------------------
(* Beat registry.                                                          *)

size(s) == Len(s.storyBeats)

\* [...this.storyBeats.keys()]
beatKeys(s) == [i \in 1..Len(s.storyBeats) |-> s.storyBeats[i].id]

\* this.storyBeats.has(id)
has(s, id) == \E i \in 1..Len(s.storyBeats) : s.storyBeats[i].id = id

\* beatKeys[index] for a zero-based index: undefined outside the array.
keyAt(s, index) ==
    IF index \in 0..(size(s) - 1) THEN s.storyBeats[index + 1].id ELSE UndefinedId

\* this.storyBeats.get(beatKeys[index])
stateAt(s, index) ==
    IF index \in 0..(size(s) - 1) THEN s.storyBeats[index + 1].state
    ELSE UndefinedState

\* beatKeys.indexOf(beatId): -1 when absent.
indexOf(s, id) ==
    IF has(s, id)
    THEN (CHOOSE i \in 1..Len(s.storyBeats) : s.storyBeats[i].id = id) - 1
    ELSE -1

\* Mutant: a duplicate id replaces the registered state (Map.set without
\* the has() check).
addBeat_Overwrite(s, id, state) ==
    IF has(s, id)
    THEN [s EXCEPT !.storyBeats[indexOf(s, id) + 1].state = state]
    ELSE [s EXCEPT !.storyBeats = Append(@, [id |-> id, state |-> state])]

\* addBeat(id, state): throws on a duplicate id, else appends.
addBeat(s, id, state) ==
    IF has(s, id)
    THEN Throw(s, "Duplicate story beat entry found.")
    ELSE [s EXCEPT !.storyBeats = Append(@, [id |-> id, state |-> state])]

-----------------------------------------------------------------------------
(* Browser intervals.                                                      *)

TimerIds(s) == {t.id : t \in s.timers}

\* window.setInterval returns an id no armed interval has; the model takes
\* the smallest one that is also not the id the object still stores.
FreshIntervalId(s) ==
    CHOOSE n \in 1..(Cardinality(s.timers) + 2) :
        /\ n \notin TimerIds(s) \cup {s.storyBeatIntervalId}
        /\ \A m \in 1..(n - 1) : m \in TimerIds(s) \cup {s.storyBeatIntervalId}

\* Mutant: the outstanding interval is never cleared.
clearInterval_Leak(s, id) == s

\* clearInterval(id): disarms the interval with that id, if any.
clearInterval(s, id) == [s EXCEPT !.timers = {t \in @ : t.id # id}]

\* window.setInterval(callback, updateInterval) inside showBeat: the closure
\* holds beatIndex and timeElapsed = 0; the first call is due one period on.
\* armedAt, pausedTime, pausedCalls and pauses are history: when the
\* interval was armed, the time it has spent with paused = true, the calls
\* of its callback that found paused = true, and the pauses it has seen.
setInterval(s, beatIndex) ==
    LET id == FreshIntervalId(s) IN
    [s EXCEPT !.timers = @ \cup {[id |-> id, beatIndex |-> beatIndex,
                                  timeElapsed |-> 0,
                                  due |-> DateNow + updateInterval,
                                  armedAt |-> DateNow,
                                  pausedTime |-> 0, pausedCalls |-> 0,
                                  pauses |-> IF s.paused = TRUE THEN 1 ELSE 0]},
              !.storyBeatIntervalId = id]

-----------------------------------------------------------------------------
(* Beat indicators.                                                        *)

\* A width in percent, kept as the quotient the code computes it from.
Fill(num, den) == [num |-> num, den |-> den]
Full == Fill(100, 1)
Empty == Fill(0, 1)

\* setBeatIndicatorWidth(beatIndex, width): the nth-child(beatIndex + 1)
\* selection is empty when the holder has no such indicator.
setBeatIndicatorWidth(s, beatIndex, width) ==
    IF beatIndex + 1 \in 1..Len(s.indicators)
    THEN [s EXCEPT !.indicators[beatIndex + 1] = width]
    ELSE s

\* initStoryBeatIndicators(): one indicator per registered beat, full up
\* to and including the current index, written into the indicator holder
\* of the app html; without the app html the selection is empty and no
\* indicator is created.
initStoryBeatIndicators(s) ==
    IF s.appHtml = TRUE
    THEN [s EXCEPT !.indicators =
            [i \in 1..size(s) |->
                IF i - 1 <= s.currentStoryBeatIndex THEN Full ELSE Empty]]
    ELSE s

\* resize(): the debounced window resize handler.  It reads
\* this.settings.layout.websiteMenu first: the default settings have no
\* layout, so without a custom one the read throws a TypeError before the
\* indicators are rebuilt; adaptStoryHolderToShownMenu() only sizes the
\* holder.
resize(s) ==
    IF s.settings.layout = "absent" THEN Throw(s, "TypeError")
    ELSE initStoryBeatIndicators(s)

\* The loop of showBeat over the indicators: full below beatIndex, empty
\* from beatIndex on.
RECURSIVE resetIndicators(_, _, _)
resetIndicators(s, beatIndex, i) ==
    IF i < size(s)
    THEN resetIndicators(
             setBeatIndicatorWidth(s, i, IF i >= beatIndex THEN Empty ELSE Full),
             beatIndex, i + 1)
    ELSE s

-----------------------------------------------------------------------------
(* Hooks.                                                                   *)

\* Names passed to addHook: three methods of the framework, a property
\* that is no function, and a name the object does not have.
HookNames == {"preShowBeat", "bindEvents", "showBeat", "settings", "noSuchPoint"}
\* typeof this[functionName] === 'function'
IsFunction(functionName) ==
    functionName \in {"preShowBeat", "bindEvents", "showBeat"}

\* Mutant: the callback is stored whatever the name.
addHook_AnyName(s, functionName, callback) ==
    [s EXCEPT !.hooks[functionName] = Append(@, callback)]

\* addHook(functionName, callback)
addHook(s, functionName, callback) ==
    IF IsFunction(functionName)
    THEN [s EXCEPT !.hooks[functionName] = Append(@, callback)]
    ELSE ConsoleError(s)

\* runHooks(id): the callbacks of id, in the order of the array.
RECURSIVE runHooksFrom(_, _, _)
runHooksFrom(s, id, i) ==
    IF i <= Len(s.hooks[id])
    THEN runHooksFrom(Called(s, s.hooks[id][i]), id, i + 1)
    ELSE s

runHooks(s, id) == runHooksFrom(s, id, 1)

\* bindEvents(): the listeners it binds are not state of the model; it
\* ends with runHooks('bindEvents').
bindEvents(s) == runHooks(s, "bindEvents")

\* init(): appends the app html, creates the indicators, binds the events,
\* sets initialized.
init(s) ==
    LET s1 == [s EXCEPT !.appHtml = TRUE]
    IN  [bindEvents(initStoryBeatIndicators(s1)) EXCEPT !.initialized = TRUE]

\* preShowBeat(beatId, beatIndex): empty, meant to be overridden.
preShowBeat(s, beatId, beatIndex) == Called(s, "preShowBeat")

-----------------------------------------------------------------------------
(* Controls, state, end of story.                                          *)

enableControls(s) == [s EXCEPT !.controlsDisabled = FALSE]

disableControls(s) == [s EXCEPT !.controlsDisabled = TRUE]

showControlsHelpScreen(s) == [s EXCEPT !.controlsHelpScreenShown = TRUE]

\* setState(state, beatId, beatIndex): the three assignments come first;
\* reading state.disableControls of an undefined state throws a TypeError.
setState(s, state, beatId, beatIndex) ==
    LET s1 == [Called(s, "setState")
                  EXCEPT !.currentStoryBeatIndex = beatIndex,
                         !.currentStoryBeatId = beatId,
                         !.currentState = state]
    IN  IF ~state.defined THEN Throw(s1, "TypeError")
        ELSE IF state.disableControls = "true" THEN disableControls(s1)
        ELSE IF state.disableControls = "false" THEN enableControls(s1)
        ELSE s1

\* showScrollDownCursor() / hideScrollDownCursor(), showRestartBtn() /
\* hideRestartBtn(): fade the element in or out.  The holder has the two
\* elements only once init() has appended the app html; before that the
\* selection is empty and nothing is shown.
showScrollDownCursor(s) ==
    IF s.appHtml = TRUE THEN [s EXCEPT !.scrollDownCursorShown = TRUE]
    ELSE s

hideScrollDownCursor(s) == [s EXCEPT !.scrollDownCursorShown = FALSE]

showRestartBtn(s) ==
    IF s.appHtml = TRUE THEN [s EXCEPT !.restartBtnShown = TRUE] ELSE s

hideRestartBtn(s) == [s EXCEPT !.restartBtnShown = FALSE]

\* endStory(): the configured side effects, then storyEnded = true.
endStory(s) ==
    LET s1 == IF s.settings.showScrollDownCursor = TRUE
              THEN showScrollDownCursor(s) ELSE hideScrollDownCursor(s)
        s2 == IF s1.settings.showRestartBtn = TRUE
              THEN showRestartBtn(s1) ELSE hideRestartBtn(s1)
    IN  [s2 EXCEPT !.scrollTimeouts = IF s.settings.scrollToContent = TRUE
                                      THEN @ + 1 ELSE @,
                   !.storyEnded = TRUE,
                   !.endStoryRuns = @ + 1]

\* pause(): this.paused = true; this.onPauseTimestamp = Date.now()
pause(s) == [s EXCEPT !.paused = TRUE, !.onPauseTimestamp = DateNow]

\* unpause(): this.paused = false; this.onPauseTimestamp = null
unpause(s) == [s EXCEPT !.paused = FALSE, !.onPauseTimestamp = NullTimestamp]

\* isBeatPause(): no timestamp, no hold; else a hold once delta > 250.
isBeatPause(s) ==
    IF s.onPauseTimestamp = NullTimestamp THEN FALSE
    ELSE (DateNow - s.onPauseTimestamp) > holdThreshold

-----------------------------------------------------------------------------
(* showBeat.                                                               *)

\* The index showBeat resolves beatId to: -1 for a string that is no key,
\* the number itself for a number (no range check).
resolveBeatIndex(s, beatId) ==
    IF beatId.type = "string" THEN indexOf(s, beatId.str) ELSE beatId.num

\* Mutant: forceManualControl follows the beat shown, so a beat other than
\* the threshold beat is timed again.
armBeat_Rearm(s, beatIndex) ==
    LET s1 == clearInterval(s, s.storyBeatIntervalId) IN
    IF s1.settings.auto = TRUE
    THEN setInterval([s1 EXCEPT !.forceManualControl =
                                   (beatIndex = s1.settings.forceManualAfterBeat)],
                     beatIndex)
    ELSE setBeatIndicatorWidth(s1, beatIndex, Full)

\* Mutant: every beat at or past the threshold forces manual control.
armBeat_AtOrPast(s, beatIndex) ==
    LET s1 == clearInterval(s, s.storyBeatIntervalId) IN
    IF s1.settings.auto = TRUE /\ s1.forceManualControl = FALSE
    THEN LET s2 == IF beatIndex >= s1.settings.forceManualAfterBeat
                   THEN [s1 EXCEPT !.forceManualControl = TRUE]
                   ELSE s1
         IN  setInterval(s2, beatIndex)
    ELSE setBeatIndicatorWidth(s1, beatIndex, Full)

\* The tail of showBeat, from clearInterval on, for a beat that was set.
armBeat(s, beatIndex) ==
    LET s1 == clearInterval(s, s.storyBeatIntervalId) IN
    IF s1.settings.auto = TRUE /\ s1.forceManualControl = FALSE
    THEN LET s2 == IF beatIndex = s1.settings.forceManualAfterBeat
                   THEN [s1 EXCEPT !.forceManualControl = TRUE]
                   ELSE s1
         IN  setInterval(s2, beatIndex)
    ELSE setBeatIndicatorWidth(s1, beatIndex, Full)

\* Mutant: the result of indexOf is not checked, so an unknown id goes on
\* as index -1.
showBeat_NoIdCheck(s, beatId) ==
    IF beatId.type = "other" THEN ConsoleError(s)
    ELSE LET beatIndex == resolveBeatIndex(s, beatId)
             s0 == preShowBeat(s, keyAt(s, beatIndex), beatIndex)
             s1 == setState(s0, stateAt(s, beatIndex), keyAt(s, beatIndex),
                            beatIndex)
         IN  IF s1.exc # "" THEN s1
             ELSE armBeat(resetIndicators(s1, beatIndex, 0), beatIndex)

\* showBeat(beatId)
showBeat(s, beatId) ==
    IF beatId.type = "other" THEN ConsoleError(s)
    ELSE IF beatId.type = "string" /\ indexOf(s, beatId.str) = -1
    THEN ConsoleError(s)
    ELSE LET beatIndex == resolveBeatIndex(s, beatId)
             s0 == preShowBeat(s, keyAt(s, beatIndex), beatIndex)
             s1 == setState(s0, stateAt(s, beatIndex), keyAt(s, beatIndex),
                            beatIndex)
         IN  IF s1.exc # "" THEN s1
             ELSE armBeat(resetIndicators(s1, beatIndex, 0), beatIndex)

-----------------------------------------------------------------------------
(* nextBeat / previousBeat.                                                *)

\* Mutant: the skip flag is not read.
shouldBeatBeSkipped_IgnoreFlag(s, index) ==
    IF ~stateAt(s, index).defined THEN "TypeError" ELSE "false"

\* Mutant: an index outside the registry reads as "not skipped" (as
\* state?.skip ?? false would) instead of throwing.
shouldBeatBeSkipped_NoThrow(s, index) ==
    IF stateAt(s, index).defined /\ stateAt(s, index).skip
    THEN "true" ELSE "false"

\* Mutant: an index up to a registry's length outside the registry reads
\* as skipped.
shouldBeatBeSkipped_PastEnd(s, index) ==
    IF index < -size(s) - 1 \/ index > 2 * size(s) THEN "TypeError"
    ELSE IF ~stateAt(s, index).defined THEN "true"
    ELSE IF stateAt(s, index).skip THEN "true" ELSE "false"

\* shouldBeatBeSkipped(index): state.skip ?? false; reading skip of the
\* undefined state of an index outside the registry throws a TypeError.
shouldBeatBeSkipped(s, index) ==
    IF ~stateAt(s, index).defined THEN "TypeError"
    ELSE IF stateAt(s, index).skip THEN "true" ELSE "false"

\* Mutant: the last beat is taken to be index size, so endStory never runs.
showNextBeat_OffByOne(s, index) ==
    LET s1 == showBeat(s, Num(index)) IN
    IF s1.exc # "" THEN s1
    ELSE IF /\ index = size(s1)
            /\ s1.settings.endStoryOnLastBeat = TRUE
         THEN endStory(s1)
         ELSE s1

\* The else branch of nextBeat: show the beat, and run endStory if it is
\* the last one and the story ends on its last beat.
showNextBeat(s, index) ==
    LET s1 == showBeat(s, Num(index)) IN
    IF s1.exc # "" THEN s1
    ELSE IF /\ index = size(s1) - 1
            /\ s1.settings.endStoryOnLastBeat = TRUE
         THEN endStory(s1)
         ELSE s1

\* Mutant: the retreat shows its beat the way nextBeat does, endStory
\* included.
RECURSIVE previousBeat_EndsStory(_, _)
previousBeat_EndsStory(s, step) ==
    IF s.currentStoryBeatIndex > 0
    THEN LET index == s.currentStoryBeatIndex - step
             skip == shouldBeatBeSkipped(s, index)
         IN  IF skip = "TypeError" THEN Throw(s, "TypeError")
             ELSE IF skip = "true" THEN previousBeat_EndsStory(Retried(s), step + 1)
             ELSE showNextBeat(s, index)
    ELSE s

RECURSIVE previousBeat(_, _)
previousBeat(s, step) ==
    IF s.currentStoryBeatIndex > 0
    THEN LET index == s.currentStoryBeatIndex - step
             skip == shouldBeatBeSkipped(s, index)
         IN  IF skip = "TypeError" THEN Throw(s, "TypeError")
             ELSE IF skip = "true" THEN previousBeat(Retried(s), step + 1)
             ELSE showBeat(s, Num(index))
    ELSE s

\* Mutant: an advance on the last beat wraps around to the first one.
nextBeat_Wrap(s, step) ==
    IF s.currentStoryBeatIndex < size(s) - 1
    THEN showNextBeat(s, s.currentStoryBeatIndex + step)
    ELSE showBeat(s, Num(0))

RECURSIVE nextBeat(_, _)
nextBeat(s, step) ==
    IF s.currentStoryBeatIndex < size(s) - 1
    THEN LET index == s.currentStoryBeatIndex + step
             skip == shouldBeatBeSkipped(s, index)
         IN  IF skip = "TypeError" THEN Throw(s, "TypeError")
             ELSE IF skip = "true" THEN nextBeat(Retried(s), step + 1)
             ELSE showNextBeat(s, index)
    ELSE s

-----------------------------------------------------------------------------
(* startStory, restart, the interval callback.                             *)

\* startStory(): storyStarted is set only if showBeat returned.
startStory(s) ==
    LET startingBeat == s.settings.startingBeat
        s1 == IF /\ startingBeat.type = "number"
                 /\ startingBeat.num > -1
                 /\ startingBeat.num < size(s)
              THEN showBeat(s, startingBeat)
              ELSE showBeat(s, Num(0))
    IN  IF s1.exc # "" THEN s1 ELSE [s1 EXCEPT !.storyStarted = TRUE]

\* reset(): empty in the framework ("Override this per project").
reset(s) == s

\* restart()
restart(s) ==
    LET s0 == hideRestartBtn(s)
        s1 == IF s0.settings.hideScrollDownCursorOnRestart = TRUE
              THEN hideScrollDownCursor(s0) ELSE s0
        s2 == [s1 EXCEPT !.endStoryRuns = 0]
    IN  showBeat(reset(s2), s2.settings.restartOnBeat)

\* Mutant: the beat is over only once progress exceeds 100.
progressComplete_Strict(s, timeElapsed) ==
    IF s.settings.timePerBeat = 0 THEN timeElapsed > 0
    ELSE timeElapsed * 100 > s.settings.timePerBeat * 100

\* progress >= 100 for progress = timeElapsed / timePerBeat * 100; a
\* timePerBeat of null (modelled as 0) divides a positive timeElapsed to
\* Infinity and a timeElapsed of 0 to NaN, which is not >= 100.
progressComplete(s, timeElapsed) ==
    IF s.settings.timePerBeat = 0 THEN timeElapsed > 0
    ELSE timeElapsed * 100 >= s.settings.timePerBeat * 100

\* Mutant: a completed interval advances whatever forceManualControl says.
intervalCallback_AlwaysAdvance(s, t) ==
    LET te == t.timeElapsed + updateInterval
        tNext == [t EXCEPT !.due = @ + updateInterval]
        tRun == [tNext EXCEPT !.timeElapsed = te]
    IN  IF s.paused # TRUE
        THEN LET s0 == [s EXCEPT !.timers = (@ \ {t}) \cup {tRun}]
                 over == progressComplete(s0, te)
                 progress == IF over THEN Full
                             ELSE Fill(te * 100, s.settings.timePerBeat)
                 s1 == [clearInterval(s0, s0.storyBeatIntervalId)
                          EXCEPT !.completion =
                              [done |-> TRUE, beatIndex |-> t.beatIndex,
                               wall |-> DateNow - t.armedAt,
                               pausedTime |-> t.pausedTime,
                               pausedCalls |-> t.pausedCalls,
                               pauses |-> t.pauses]]
                 s2 == IF ~over THEN s0 ELSE nextBeat(s1, 1)
             IN  IF s2.exc # "" THEN s2
                 ELSE setBeatIndicatorWidth(s2, t.beatIndex, progress)
        ELSE [s EXCEPT !.timers =
                 (@ \ {t}) \cup {[tNext EXCEPT !.pausedCalls = @ + 1]}]

\* Mutant: the callback does not read paused.
intervalCallback_IgnorePause(s, t) ==
    LET te == t.timeElapsed + updateInterval
        tRun == [t EXCEPT !.due = @ + updateInterval, !.timeElapsed = te]
        s0 == [s EXCEPT !.timers = (@ \ {t}) \cup {tRun}]
        over == progressComplete(s0, te)
        progress == IF over THEN Full
                    ELSE Fill(te * 100, s.settings.timePerBeat)
        s1 == clearInterval(s0, s0.storyBeatIntervalId)
        s2 == IF ~over THEN s0
              ELSE IF s1.forceManualControl = FALSE THEN nextBeat(s1, 1)
              ELSE IF s1.controlsHelpScreenShown = FALSE
              THEN showControlsHelpScreen(s1)
              ELSE s1
    IN  IF s2.exc # "" THEN s2
        ELSE setBeatIndicatorWidth(s2, t.beatIndex, progress)

\* One call of the interval callback armed by showBeat, for interval t.
intervalCallback(s, t) ==
    LET te == t.timeElapsed + updateInterval
        tNext == [t EXCEPT !.due = @ + updateInterval]
        tRun == [tNext EXCEPT !.timeElapsed = te]
    IN  IF s.paused # TRUE
        THEN LET s0 == [s EXCEPT !.timers = (@ \ {t}) \cup {tRun}]
                 over == progressComplete(s0, te)
                 progress == IF over THEN Full
                             ELSE Fill(te * 100, s.settings.timePerBeat)
                 s1 == [clearInterval(s0, s0.storyBeatIntervalId)
                          EXCEPT !.completion =
                              [done |-> TRUE, beatIndex |-> t.beatIndex,
                               wall |-> DateNow - t.armedAt,
                               pausedTime |-> t.pausedTime,
                               pausedCalls |-> t.pausedCalls,
                               pauses |-> t.pauses]]
                 s2 == IF ~over THEN s0
                       ELSE IF s1.forceManualControl = FALSE
                       THEN nextBeat(s1, 1)
                       ELSE IF s1.controlsHelpScreenShown = FALSE
                       THEN showControlsHelpScreen(s1)
                       ELSE s1
             IN  IF s2.exc # "" THEN s2
                 ELSE setBeatIndicatorWidth(s2, t.beatIndex, progress)
        ELSE [s EXCEPT !.timers =
                 (@ \ {t}) \cup {[tNext EXCEPT !.pausedCalls = @ + 1]}]

-----------------------------------------------------------------------------
(* Settings.                                                               *)

\* this.defaultSettings, the fields the navigation reads.  The defaults
\* have no layout object: layout is "absent" unless the custom settings
\* bring one, and is otherwise the value of layout.websiteMenu.
defaultSettings ==
    [startingBeat |-> Num(0), auto |-> TRUE, forceManualAfterBeat |-> 0,
     timePerBeat |-> 8000, endStoryOnLastBeat |-> TRUE,
     restartOnBeat |-> Num(0), showRestartBtn |-> FALSE,
     hideScrollDownCursorOnRestart |-> TRUE, showScrollDownCursor |-> TRUE,
     scrollToContent |-> FALSE, layout |-> "absent"]

\* merge(this.defaultSettings, customSettings): custom fields win.
merge(default, custom) ==
    [k \in DOMAIN default |-> IF k \in DOMAIN custom THEN custom[k] ELSE default[k]]

\* Beat duration of the navigation stories: two periods of the interval.
TimePerBeatChoices == {2 * updateInterval}

\* The customSettings objects the stories of the model are constructed
\* with.  Navigation settings: automatic or not, the force-manual threshold
\* on the first beat, on the second or on none, ending on the last beat or
\* not, and the starting and the restart beat given one as an index and
\* the other as an id.
StartAndRestartBeats ==
    {[startingBeat |-> Num(1), restartOnBeat |-> Str("b")],
     [startingBeat |-> Str("b"), restartOnBeat |-> Num(0)]}

\* The force-manual threshold is read in automatic mode only (759): the
\* manual stories keep the default.
ForceManualChoices(a) ==
    IF a THEN {0, 1, MaxBeats} ELSE {defaultSettings.forceManualAfterBeat}

NavigationSettings ==
    UNION {{[auto |-> a, forceManualAfterBeat |-> f, endStoryOnLastBeat |-> e,
             startingBeat |-> sr.startingBeat,
             restartOnBeat |-> sr.restartOnBeat, timePerBeat |-> d] :
               f \in ForceManualChoices(a), e \in BOOLEAN,
               sr \in StartAndRestartBeats, d \in TimePerBeatChoices} :
           a \in BOOLEAN}

\* End-of-story settings: the other value of each switch endStory reads.
EndStorySettings ==
    {[auto |-> a, forceManualAfterBeat |-> MaxBeats, timePerBeat |-> d,
      showRestartBtn |-> TRUE, showScrollDownCursor |-> FALSE,
      hideScrollDownCursorOnRestart |-> FALSE, scrollToContent |-> TRUE] :
        a \in BOOLEAN, d \in TimePerBeatChoices}

CustomSettings == NavigationSettings \cup EndStorySettings

-----------------------------------------------------------------------------
(* Initial state: the object after its constructor.                        *)

InitWith(custom) ==
    /\ storyBeats = <<>>
    /\ settings = merge(defaultSettings, custom)
    /\ currentState = EmptyState
    /\ currentStoryBeatIndex = 0
    /\ currentStoryBeatId = ""
    /\ forceManualControl = FALSE
    /\ paused = FALSE
    /\ onPauseTimestamp = LongAgo
    /\ controlsDisabled = FALSE
    /\ storyEnded = FALSE
    /\ storyStarted = FALSE
    /\ controlsHelpScreenShown = FALSE
    /\ storyBeatIntervalId = UndefinedIntervalId
    /\ timers = {}
    /\ restartBtnShown = FALSE
    /\ scrollDownCursorShown = FALSE
    /\ scrollTimeouts = 0
    /\ initialized = FALSE
    /\ indicators = <<>>
    /\ hooks = [name \in HookNames |-> <<>>]
    /\ endStoryRuns = 0
    /\ lastOp = [op |-> "constructor", exc |-> "", logged |-> FALSE,
                 completion |-> NoCompletion, from |-> 0, calls |-> <<>>]

Init == \E custom \in CustomSettings : InitWith(custom)

-----------------------------------------------------------------------------
(* Actions: one per public method or callback.                             *)

\* The number of callbacks registered under the names of S.
RECURSIVE HookCount(_, _)
HookCount(r, S) ==
    IF S = {} THEN 0
    ELSE LET name == CHOOSE n \in S : TRUE
         IN  Len(r.hooks[name]) + HookCount(r, S \ {name})

\* The history counters stay within the bounds of the model.
WithinBounds(r) ==
    /\ r.endStoryRuns <= MaxEndRuns
    /\ r.scrollTimeouts <= MaxEndRuns
    /\ \A t \in r.timers : t.pauses <= MaxPauses

Call(r, op) == WithinBounds(r) /\ Commit(r, op)

AddBeat(id, state) == Call(addBeat(Self, id, state), "addBeat")

StartStory == Call(startStory(Self), "startStory")

ShowBeat(beatId) == Call(showBeat(Self, beatId), "showBeat")

NextBeat(step) == Call(nextBeat(Self, step), "nextBeat")

PreviousBeat(step) == Call(previousBeat(Self, step), "previousBeat")

EndStory == Call(endStory(Self), "endStory")

Restart == Call(restart(Self), "restart")

InitStory == Call(init(Self), "init")

Resize == Call(resize(Self), "resize")

AddHook(functionName, callback) ==
    LET r == addHook(Self, functionName, callback) IN
    HookCount(r, HookNames) <= MaxHooks /\ Call(r, "addHook")

\* History: an armed interval sees one more pause when the story goes from
\* not paused to paused.
NotePause(r) ==
    IF paused = TRUE \/ r.paused # TRUE THEN r
    ELSE [r EXCEPT !.timers = {[t EXCEPT !.pauses = @ + 1] : t \in @}]

Pause == Call(NotePause(pause(Self)), "pause")

Unpause == Call(unpause(Self), "unpause")

\* The call after one made at DateNow, on the cadence of the interval: the
\* first of due + updateInterval, due + 2 * updateInterval, ... that lies
\* ahead (the calls missed in between are not made up for).
OnCadence(t) ==
    t.due + updateInterval * ((DateNow - t.due) \div updateInterval + 1)

\* window.setInterval leaves the time of the call after a late one to the
\* browser: on the cadence of the interval, or one period after the late
\* call.  After a call on time the two are the same.
NextDue(t) == {OnCadence(t), DateNow + updateInterval}

\* The browser re-arms interval id for a call at due, unless the callback
\* has cleared it.
Rearm(r, id, due) ==
    [r EXCEPT !.timers =
        {IF u.id = id THEN [u EXCEPT !.due = due] ELSE u : u \in @}]

\* The browser calls the interval callback once its period has elapsed:
\* when it is due, or later when the main thread was busy.
IntervalCallback ==
    \E t \in timers :
        /\ t.due <= DateNow
        /\ \E due \in NextDue(t) :
              Call(Rearm(intervalCallback(Self, t), t.id, due), "interval")

\* The deferred scroll scheduled by endStory runs (an animation only).
ScrollTimeout ==
    /\ scrollTimeouts > 0
    /\ Call([Self EXCEPT !.scrollTimeouts = @ - 1], "scrollTimeout")

\* A timestamp d time units later, seen from the new present.
Shift(ts, d) == IF ts - d < LongAgo THEN LongAgo ELSE ts - d

\* d time units pass: every stored timestamp lies d further in the past.
\* A call of an armed interval that has become due in the meantime is
\* late.
Elapse(d) ==
    /\ \A t \in timers :
          DateNow + d - t.armedAt <= MaxTicks * updateInterval
    /\ Call([Self EXCEPT
               !.onPauseTimestamp =
                   IF @ = NullTimestamp THEN @ ELSE Shift(@, d),
               !.timers =
                   {[t EXCEPT !.due = @ - d, !.armedAt = @ - d,
                              !.pausedTime = IF paused = TRUE THEN @ + d ELSE @]
                      : t \in @}],
            "elapse")

-----------------------------------------------------------------------------
(* The environment.                                                        *)

\* Beat references handed to showBeat: every index up to the largest size
\* (out of range for a full registry), every id of the model and one that
\* is never registered, and a value that is neither number nor string.
BeatRefs ==
    {Num(i) : i \in 0..MaxBeats} \cup {Str(x) : x \in BeatIds \cup {"zz"}}
        \cup {Other}

\* The state objects registered: with and without the skip flag.
SkipStates == {BeatState(k, "absent") : k \in BOOLEAN}

\* Ids are opaque: the k-th new id is IdNames[k]; any registered id may be
\* offered again.
OfferedIds == {IdNames[i] : i \in 1..Min(Len(storyBeats) + 1, MaxBeats)}

\* Beats are registered before the story starts.
Register ==
    /\ ~storyStarted
    /\ \E id \in OfferedIds, state \in SkipStates : AddBeat(id, state)

Start == ~storyStarted /\ StartStory

\* The framework itself calls endStory from nextBeat only (578); a project
\* calls it directly in the stories constructed with the end-of-story
\* settings.
EndStoryByProject ==
    /\ storyStarted
    /\ settings.showRestartBtn = TRUE
    /\ EndStory

Next ==
    \/ Register
    \/ Start
    \/ storyStarted /\ \E b \in BeatRefs : ShowBeat(b)
    \/ storyStarted /\ \E k \in 1..MaxStep : NextBeat(k)
    \/ storyStarted /\ \E k \in 1..MaxStep : PreviousBeat(k)
    \/ EndStoryByProject
    \/ storyStarted /\ Restart
    \/ storyStarted /\ IntervalCallback
    \/ storyStarted /\ ScrollTimeout
    \/ storyStarted /\ Elapse(updateInterval)

Spec == Init /\ [][Next]_vars

\* The story driven by advance and retreat only, once started: nextBeat and
\* previousBeat calls and the calls of the interval callback.
NextNavigate ==
    \/ Register
    \/ Start
    \/ storyStarted /\ \E k \in 1..MaxStep : NextBeat(k)
    \/ storyStarted /\ \E k \in 1..MaxStep : PreviousBeat(k)
    \/ storyStarted /\ IntervalCallback
    \/ storyStarted /\ Elapse(updateInterval)

SpecNavigate == Init /\ [][NextNavigate]_vars

\* The progress clock: an automatic story of plain beats with no
\* force-manual threshold, whose beat lasts a whole number of periods or
\* not, under presses and releases at any third of a period.
ClockSettings ==
    {[auto |-> TRUE, forceManualAfterBeat |-> MaxBeats, timePerBeat |-> d] :
        d \in {2 * updateInterval, 2 * updateInterval + 10}}

InitClock == \E custom \in ClockSettings : InitWith(custom)

SubTick == updateInterval \div 3

RegisterPlain ==
    /\ ~storyStarted
    /\ Len(storyBeats) < MaxBeats
    /\ AddBeat(IdNames[Len(storyBeats) + 1], BeatState(FALSE, "absent"))

NextClock ==
    \/ RegisterPlain
    \/ Start
    \/ Pause
    \/ Unpause
    \/ storyStarted /\ IntervalCallback
    \/ storyStarted /\ Elapse(SubTick)

SpecClock == InitClock /\ [][NextClock]_vars

\* The story with its indicators: beats are registered, init() creates the
\* indicators and startStory() follows; then beats are shown by reference,
\* advance, retreat, restart and the interval, and the window is resized.
\* The stories are constructed without a layout, as the defaults are, and,
\* for the resize handler to get past its first read, with one whose
\* website menu is hidden or shown.
WebsiteMenuChoices == {"hidden", "shown"}

LayoutSettings ==
    {[auto |-> a, layout |-> w, restartOnBeat |-> Num(1), timePerBeat |-> d] :
        a \in BOOLEAN, w \in WebsiteMenuChoices, d \in TimePerBeatChoices}

StorySettings ==
    UNION {{[auto |-> a, forceManualAfterBeat |-> f, endStoryOnLastBeat |-> e,
             restartOnBeat |-> Num(1), timePerBeat |-> d] :
               f \in ForceManualChoices(a), e \in BOOLEAN,
               d \in TimePerBeatChoices} :
           a \in BOOLEAN}
      \cup LayoutSettings

InitOfStory == \E custom \in StorySettings : InitWith(custom)

NextStory ==
    \/ ~initialized /\ Register
    \/ ~initialized /\ ~storyStarted /\ InitStory
    \/ initialized /\ Start
    \/ storyStarted /\ \E b \in BeatRefs : ShowBeat(b)
    \/ storyStarted /\ \E k \in 1..MaxStep : NextBeat(k)
    \/ storyStarted /\ \E k \in 1..MaxStep : PreviousBeat(k)
    \/ storyStarted /\ Restart
    \/ storyStarted /\ Resize
    \/ storyStarted /\ IntervalCallback
    \/ storyStarted /\ Elapse(updateInterval)

SpecStory == InitOfStory /\ [][NextStory]_vars

\* The start of a story for every kind of configured startingBeat: an index
\* in or out of the registry, negative, a registered or unknown id, and a
\* value that is neither.
StartingBeats ==
    {Num(i) : i \in -1..MaxBeats} \cup {Str("b"), Str("zz"), Other}

StartSettings ==
    {[startingBeat |-> b, auto |-> a, timePerBeat |-> d] :
        b \in StartingBeats, a \in BOOLEAN, d \in TimePerBeatChoices}

InitStart == \E custom \in StartSettings : InitWith(custom)

NextStart ==
    \/ Register
    \/ Start
    \/ storyStarted /\ NextBeat(1)
    \/ storyStarted /\ PreviousBeat(1)

SpecStart == InitStart /\ [][NextStart]_vars

\* The hooks: callbacks are registered under any name at any time of the
\* life of a manual story, which is initialised, started and shown.
CallbackNames == {"cb1", "cb2"}

InitHooks == InitWith([auto |-> FALSE])

NextHooks ==
    \/ \E name \in HookNames, callback \in CallbackNames : AddHook(name, callback)
    \/ RegisterPlain
    \/ ~initialized /\ InitStory
    \/ Start
    \/ storyStarted /\ \E b \in BeatRefs : ShowBeat(b)
    \/ storyStarted /\ NextBeat(1)

SpecHooks == InitHooks /\ [][NextHooks]_vars

-----------------------------------------------------------------------------
(* Vocabulary of the properties.                                           *)

InRegistry(index) == index \in 0..(Len(storyBeats) - 1)

\* The skip flag of the registered beat at a zero-based index.
SkipFlag(index) == storyBeats[index + 1].state.skip

\* The last call returned: no exception, nothing logged as an error.
Returned == lastOp.exc = "" /\ ~lastOp.logged

LastBeat == Len(storyBeats) - 1

-----------------------------------------------------------------------------
(* C1 *)

\* C1: after start, under any sequence of nextBeat and previousBeat calls
\* (with any step and any skip flags) and calls of the interval callback,
\* currentStoryBeatIndex is a position of the registry:
\* 0 <= currentStoryBeatIndex < size.
C1_IndexInRange ==
    storyStarted => InRegistry(currentStoryBeatIndex)

\* A full registry whose skip search ran past the end: the advance threw
\* and the index stayed where it was.
C1_Witness ==
    /\ storyStarted
    /\ Len(storyBeats) = MaxBeats
    /\ lastOp.op = "nextBeat"
    /\ lastOp.exc = "TypeError"
    /\ lastOp.from = currentStoryBeatIndex
    /\ currentStoryBeatIndex < LastBeat

-----------------------------------------------------------------------------
(* C2 *)

\* The calls that show a beat.
ShowingOps ==
    {"showBeat", "startStory", "restart", "nextBeat", "previousBeat", "interval"}

\* C2: skip invariant: after any call that shows a beat (showBeat by id or
\* index, start, restart, advance, retreat, timer-driven advance) the
\* current beat is not a beat whose skip flag is true.
C2_SkipInvariant ==
    (lastOp.op \in ShowingOps /\ Returned /\ InRegistry(currentStoryBeatIndex))
        => ~SkipFlag(currentStoryBeatIndex)

-----------------------------------------------------------------------------
(* C3 *)

\* C3: at most one progress interval is armed in every reachable state, and
\* it is the one whose id the object stores; after a showBeat that returned
\* in automatic mode with forceManualControl false, exactly one is armed:
\* a fresh one (no time elapsed) for the beat just shown.
C3_AtMostOneTimer ==
    /\ Cardinality(timers) <= 1
    /\ \A t \in timers : t.id = storyBeatIntervalId
    /\ (/\ lastOp.op = "showBeat"
        /\ Returned
        /\ settings.auto = TRUE
        /\ forceManualControl = FALSE)
          => /\ Cardinality(timers) = 1
             /\ \A t \in timers : /\ t.beatIndex = currentStoryBeatIndex
                                  /\ t.timeElapsed = 0

\* A showBeat in automatic mode that replaced an armed interval: the stored
\* id is the second one handed out, and it is the only interval armed.
C3_Witness ==
    /\ lastOp.op = "showBeat"
    /\ Returned
    /\ settings.auto = TRUE
    /\ forceManualControl = FALSE
    /\ storyBeatIntervalId = 2
    /\ Cardinality(timers) = 1

-----------------------------------------------------------------------------
(* C4 *)

\* C4: end() is idempotent: with no restart in between, the end-of-story
\* side effects are performed at most once (endStoryRuns counts the runs of
\* endStory since construction or the last restart).
C4_EndOnce == endStoryRuns <= 1

-----------------------------------------------------------------------------
(* C5 *)

\* The index the configured restart beat resolves to.
RestartTarget == resolveBeatIndex(Self, settings.restartOnBeat)

\* C5: after restart() has returned, storyEnded is false, the current beat
\* is the configured restart beat, forceManualControl is false (or was set
\* again by showing the threshold beat itself in automatic mode), and in
\* automatic mode a restart to a beat other than the threshold beat has
\* armed an interval.
C5_RestartResets ==
    (lastOp.op = "restart" /\ Returned)
        => /\ storyEnded = FALSE
           /\ currentStoryBeatIndex = RestartTarget
           /\ forceManualControl = TRUE
                => /\ settings.auto = TRUE
                   /\ currentStoryBeatIndex = settings.forceManualAfterBeat
           /\ (/\ settings.auto = TRUE
               /\ currentStoryBeatIndex # settings.forceManualAfterBeat)
                => timers # {}

-----------------------------------------------------------------------------
(* C6 *)

\* A step that is an advance (a nextBeat call or a call of the interval
\* callback) and shows the last beat: the index moves up to the last one.
AdvanceShowsLastBeat ==
    /\ lastOp'.op \in {"nextBeat", "interval"}
    /\ currentStoryBeatIndex < LastBeat
    /\ currentStoryBeatIndex' = LastBeat

\* C6: with endStoryOnLastBeat = true, an advance (manual or timer-driven)
\* that shows the last beat runs endStory exactly once in the same call and
\* leaves storyEnded true; a call of the interval callback made while the
\* current beat is the last one runs endStory not at all.
C6_EndOnLastBeat ==
    [][/\ (AdvanceShowsLastBeat /\ settings.endStoryOnLastBeat = TRUE)
            => /\ endStoryRuns' = endStoryRuns + 1
               /\ storyEnded' = TRUE
       /\ (lastOp'.op = "interval" /\ currentStoryBeatIndex = LastBeat)
            => /\ endStoryRuns' = endStoryRuns
               /\ currentStoryBeatIndex' = currentStoryBeatIndex
      ]_vars

\* The interval armed for the last beat has run to completion after the
\* story ended there: endStory has still run once.
C6_Witness ==
    /\ settings.endStoryOnLastBeat = TRUE
    /\ lastOp.op = "interval"
    /\ lastOp.completion.done
    /\ lastOp.completion.beatIndex = LastBeat
    /\ currentStoryBeatIndex = LastBeat
    /\ lastOp.from = LastBeat
    /\ storyEnded = TRUE
    /\ endStoryRuns = 1

-----------------------------------------------------------------------------
(* C7 *)

\* The calls of the callback, made while not paused, that a beat of
\* duration d takes: the least n with n * updateInterval >= d.
CallsFor(d) == (d + updateInterval - 1) \div updateInterval

\* C7 as claimed: the interval of a beat completes exactly when the time
\* passed while not paused reaches timePerBeat, so a pause of length P
\* delays the completion by exactly P.
C7_ExactClock ==
    lastOp.completion.done
        => lastOp.completion.wall - lastOp.completion.pausedTime
             = settings.timePerBeat

\* What the callback does instead: it counts its calls.  The interval
\* completes on the call at which the calls made while not paused number
\* CallsFor(timePerBeat), no earlier than
\* updateInterval * (CallsFor(timePerBeat) + k) after it was armed, k being
\* the calls that found the story paused, and later by as much as the
\* calls were late.
C7_TickClock ==
    lastOp.completion.done
        => LET c == lastOp.completion IN
           c.wall >=
             updateInterval * (CallsFor(settings.timePerBeat) + c.pausedCalls)

\* A beat of two periods, never paused, whose first call came after the
\* main thread had been busy for 40 time units: it completed 45 after it
\* was armed.
C7_LateWitness ==
    /\ lastOp.completion.done
    /\ settings.timePerBeat = 2 * updateInterval
    /\ lastOp.completion.pauses = 0
    /\ lastOp.completion.pausedTime = 0
    /\ lastOp.completion.wall = 3 * updateInterval

\* A beat of two periods and ten units, paused once for two thirds of a
\* period across one call of the callback: it completed four periods after
\* it was armed.
C7_Witness ==
    /\ lastOp.completion.done
    /\ settings.timePerBeat = 2 * updateInterval + 10
    /\ lastOp.completion.pauses = 1
    /\ lastOp.completion.pausedCalls = 1
    /\ lastOp.completion.pausedTime = 2 * SubTick
    /\ lastOp.completion.wall = 4 * updateInterval

-----------------------------------------------------------------------------
(* C8 *)

\* C8: in every reachable state and for every id and state object,
\* addBeat(id, state) of a registered id throws and leaves the object as it
\* was (same ids, same order, same states, same size), and of a new id
\* returns with the registry extended by exactly that entry, in last
\* position; and every addBeat step of the story does one or the other.
C8_Register ==
    /\ [](\A id \in BeatIds, state \in SkipStates :
            LET r == addBeat(Self, id, state) IN
            IF has(Self, id)
            THEN /\ r.exc # ""
                 /\ [r EXCEPT !.exc = ""] = Self
            ELSE /\ r.exc = ""
                 /\ r.storyBeats =
                      Append(storyBeats, [id |-> id, state |-> state])
                 /\ [r EXCEPT !.storyBeats = storyBeats] = Self)
    /\ [][lastOp'.op = "addBeat"
            => IF lastOp'.exc # ""
               THEN storyBeats' = storyBeats
               ELSE /\ Len(storyBeats') = Len(storyBeats) + 1
                    /\ SubSeq(storyBeats', 1, Len(storyBeats)) = storyBeats
                    /\ ~has(Self, storyBeats'[Len(storyBeats')].id)
         ]_vars

\* A registration that was refused as a duplicate, in a registry of two.
C8_Witness ==
    /\ lastOp.op = "addBeat"
    /\ lastOp.exc = "Duplicate story beat entry found."
    /\ Len(storyBeats) = 2

-----------------------------------------------------------------------------
(* C9 *)

\* The non-skipped beats after / before a zero-based index.
UnskippedAfter(i) == {j \in (i + 1)..LastBeat : ~SkipFlag(j)}
UnskippedBefore(i) == {j \in 0..Min(i - 1, LastBeat) : ~SkipFlag(j)}

Smallest(S) == CHOOSE j \in S : \A k \in S : j <= k
Largest(S) == CHOOSE j \in S : \A k \in S : j >= k

\* The object r shows the registered beat at index j.
Shows(r, j) ==
    /\ r.exc = ""
    /\ r.currentStoryBeatIndex = j
    /\ r.currentStoryBeatId = storyBeats[j + 1].id
    /\ r.currentState = storyBeats[j + 1].state

\* C9: in every reachable state of a started story whose current index i
\* is in the registry and has a non-skipped beat after it, nextBeat() makes
\* the non-skipped beat with the smallest index greater than i current; and
\* every timer-driven advance that moved the story went from its index to
\* the smallest non-skipped one after it.
C9_AdvanceSkips ==
    /\ (/\ storyStarted
        /\ InRegistry(currentStoryBeatIndex)
        /\ UnskippedAfter(currentStoryBeatIndex) # {})
          => Shows(nextBeat(Self, 1),
                   Smallest(UnskippedAfter(currentStoryBeatIndex)))
    /\ (/\ lastOp.op = "interval"
        /\ lastOp.from # currentStoryBeatIndex)
          => /\ UnskippedAfter(lastOp.from) # {}
             /\ currentStoryBeatIndex = Smallest(UnskippedAfter(lastOp.from))

\* [A, B(skip), C]: an advance from A has landed on C.
C9_Witness ==
    /\ Len(storyBeats) = 3
    /\ SkipFlag(1) /\ ~SkipFlag(2)
    /\ lastOp.op = "nextBeat"
    /\ Returned
    /\ lastOp.from = 0
    /\ currentStoryBeatIndex = 2
    /\ currentStoryBeatId = "c"

-----------------------------------------------------------------------------
(* C10 *)

\* C10: in every reachable state of a started story whose current index i
\* is positive (a position of the registry, or the one just past its end)
\* and has a non-skipped beat before it, previousBeat() makes the
\* non-skipped beat with the largest index smaller than i current; and no
\* previousBeat call, with any step and from any state, runs endStory or
\* changes storyEnded.
C10_RetreatSkips ==
    /\ (/\ storyStarted
        /\ currentStoryBeatIndex \in 1..Len(storyBeats)
        /\ UnskippedBefore(currentStoryBeatIndex) # {})
          => Shows(previousBeat(Self, 1),
                   Largest(UnskippedBefore(currentStoryBeatIndex)))
    /\ \A k \in 1..MaxStep :
          /\ previousBeat(Self, k).endStoryRuns = endStoryRuns
          /\ previousBeat(Self, k).storyEnded = storyEnded
          /\ previousBeat(Self, k).scrollTimeouts = scrollTimeouts

\* [A, B(skip), C] in a story that ends on its last beat: a retreat from C,
\* where the story had not ended, has landed on A and has not ended it.
C10_Witness ==
    /\ Len(storyBeats) = 3
    /\ SkipFlag(1) /\ ~SkipFlag(0)
    /\ settings.endStoryOnLastBeat = TRUE
    /\ lastOp.op = "previousBeat"
    /\ Returned
    /\ lastOp.from = 2
    /\ currentStoryBeatIndex = 0
    /\ storyEnded = FALSE
    /\ endStoryRuns = 0

-----------------------------------------------------------------------------
(* C11 *)

\* C11: in every state of a started story whose current beat is the last
\* beat, nextBeat (with any step) is a silent no-op, and so is previousBeat
\* on the first beat: the call returns the object as it found it (index,
\* id, armed interval with its elapsed time, indicators,
\* forceManualControl, storyEnded and every other field), throws nothing,
\* logs nothing and invokes no callback.
C11_EdgeNoOp ==
    (storyStarted /\ InRegistry(currentStoryBeatIndex))
        => /\ currentStoryBeatIndex = LastBeat
                => \A k \in 1..MaxStep : nextBeat(Self, k) = Self
           /\ currentStoryBeatIndex = 0
                => \A k \in 1..MaxStep : previousBeat(Self, k) = Self

\* An advance was called on the last of several beats while its interval
\* was half way: the interval and the half-filled indicator are still
\* there.
C11_Witness ==
    /\ Len(storyBeats) > 1
    /\ lastOp.op = "nextBeat"
    /\ lastOp.from = LastBeat
    /\ lastOp.calls = <<>>
    /\ currentStoryBeatIndex = LastBeat
    /\ \E t \in timers : t.beatIndex = LastBeat /\ t.timeElapsed = updateInterval
    /\ indicators[LastBeat + 1] = Fill(updateInterval * 100, settings.timePerBeat)

-----------------------------------------------------------------------------
(* C12 *)

\* C12: when every beat after the current one is skip-flagged, an advance
\* completes as a no-op without raising an error, and so does a retreat
\* when every beat before the current one is skip-flagged: the call throws
\* nothing and leaves the object as it found it; nor does a call of the
\* interval callback ever end in an error.
C12_SkipPastBoundsNoOp ==
    (storyStarted /\ InRegistry(currentStoryBeatIndex))
        => /\ UnskippedAfter(currentStoryBeatIndex) = {}
                => nextBeat(Self, 1) = Self
           /\ UnskippedBefore(currentStoryBeatIndex) = {}
                => previousBeat(Self, 1) = Self
           /\ lastOp.op = "interval" => lastOp.exc = ""

-----------------------------------------------------------------------------
(* C13 *)

\* The numeric indexes just outside the registry.
OutOfRange == {-1, Len(storyBeats)}

\* C13: in every state of a started story, showBeat with a numeric index
\* outside [0, size) is a logged no-op: it throws nothing, logs an error
\* and leaves the object (index, id, state, armed interval, indicators) as
\* it found it.
C13_OutOfRangeNoOp ==
    storyStarted
        => \A n \in OutOfRange : showBeat(Self, Num(n)) = ConsoleError(Self)

-----------------------------------------------------------------------------
(* C14 *)

\* The references that are neither a registered id nor a number.
UnknownRefs ==
    {b \in BeatRefs : b.type = "string" /\ ~has(Self, b.str)} \cup {Other}

\* C14: in every state of a started story, showBeat with a string that is
\* no registered id, or with a value that is neither string nor number, is
\* a logged no-op: it logs an error, throws nothing, invokes no callback
\* and leaves every field (index, id, state, armed interval with its
\* elapsed time, indicators) as it found it.
C14_UnknownRefNoOp ==
    storyStarted
        => \A b \in UnknownRefs : showBeat(Self, b) = ConsoleError(Self)

\* showBeat was called with an unknown reference while the interval of the
\* current beat was half way: it logged, and the interval and the
\* half-filled indicator are as they were.
C14_Witness ==
    /\ lastOp.op = "showBeat"
    /\ lastOp.logged
    /\ lastOp.exc = ""
    /\ lastOp.calls = <<>>
    /\ lastOp.from = currentStoryBeatIndex
    /\ InRegistry(currentStoryBeatIndex)
    /\ \E t \in timers : /\ t.beatIndex = currentStoryBeatIndex
                         /\ t.timeElapsed = updateInterval
    /\ indicators[currentStoryBeatIndex + 1]
         = Fill(updateInterval * 100, settings.timePerBeat)

-----------------------------------------------------------------------------
(* C15 *)

\* The configured startingBeat resolves to a registered beat: an index of
\* the registry or a registered id.
StartingBeatResolves ==
    \/ settings.startingBeat.type = "number"
         /\ InRegistry(settings.startingBeat.num)
    \/ settings.startingBeat.type = "string"
         /\ has(Self, settings.startingBeat.str)

\* C15: startStory() never throws, for any registry; it sets storyStarted,
\* and when the configured startingBeat does not resolve to a registered
\* beat the current index after it is 0.
C15_StartNeverThrows ==
    lastOp.op = "startStory"
        => /\ lastOp.exc = ""
           /\ storyStarted
           /\ ~StartingBeatResolves => currentStoryBeatIndex = 0

-----------------------------------------------------------------------------
(* C16 *)

\* C16: when the configured startingBeat is the id of a registered beat,
\* the current beat after startStory() is that beat, at its position.
C16_StartById ==
    (/\ lastOp.op = "startStory"
     /\ settings.startingBeat.type = "string"
     /\ has(Self, settings.startingBeat.str))
        => /\ currentStoryBeatIndex = indexOf(Self, settings.startingBeat.str)
           /\ currentStoryBeatId = settings.startingBeat.str

-----------------------------------------------------------------------------
(* C17 *)

\* The call recorded in l showed a beat: setState ran and nothing was
\* thrown.
ShownBy(l) ==
    /\ l.exc = ""
    /\ \E i \in 1..Len(l.calls) : l.calls[i] = "setState"

\* C17: forced manual control is one-directional.  A call that shows the
\* beat at index forceManualAfterBeat in automatic mode leaves
\* forceManualControl true; once true it is true after every step
\* (a restart included), and every step that shows a beat while it is
\* true, forward or backward, leaves no interval armed.
C17_ForcedManualSticks ==
    /\ [](((/\ ShownBy(lastOp)
            /\ lastOp.op \in ShowingOps
            /\ settings.auto = TRUE
            /\ currentStoryBeatIndex = settings.forceManualAfterBeat)
             => forceManualControl = TRUE))
    /\ [][forceManualControl = TRUE
            => /\ forceManualControl' = TRUE
               /\ ShownBy(lastOp') => timers' = {}]_vars

\* An automatic story past its threshold beat went back to a beat before
\* it: control is still manual and no interval is armed.
C17_Witness ==
    /\ lastOp.op = "previousBeat"
    /\ ShownBy(lastOp)
    /\ settings.auto = TRUE
    /\ forceManualControl = TRUE
    /\ currentStoryBeatIndex < settings.forceManualAfterBeat
    /\ timers = {}

-----------------------------------------------------------------------------
(* C18 *)

\* Two widths are the same value.
SameWidth(a, b) == a.num * b.den = b.num * a.den

\* The progress of an armed interval: 0 until its callback has computed
\* one, then timeElapsed / timePerBeat * 100, clamped at 100.
LiveProgress(t) ==
    IF t.timeElapsed = 0 THEN Empty
    ELSE IF progressComplete(Self, t.timeElapsed) THEN Full
    ELSE Fill(t.timeElapsed * 100, settings.timePerBeat)

\* C18: indicator projection.  In every state of a started story every
\* beat before the current index has width 100 and every beat after it
\* width 0; the current beat has the live progress of the interval armed
\* for it while there is one, and width 100 when the story is not in
\* automatic mode.
C18_IndicatorProjection ==
    (initialized /\ storyStarted)
        => \A j \in 0..LastBeat :
              /\ j < currentStoryBeatIndex => indicators[j + 1] = Full
              /\ j > currentStoryBeatIndex => indicators[j + 1] = Empty
              /\ j = currentStoryBeatIndex
                   => /\ \A t \in timers :
                           t.beatIndex = j
                             => SameWidth(indicators[j + 1], LiveProgress(t))
                      /\ settings.auto = FALSE => indicators[j + 1] = Full

-----------------------------------------------------------------------------
(* C19 *)

IsCallback(c) == c \in CallbackNames

\* The hook callbacks the call recorded in l invoked before its first
\* setState, in order.
CallbacksBeforeSetState(l) ==
    LET i == CHOOSE k \in 1..Len(l.calls) :
                 /\ l.calls[k] = "setState"
                 /\ \A m \in 1..(k - 1) : l.calls[m] # "setState"
    IN  SelectSeq(SubSeq(l.calls, 1, i - 1), IsCallback)

\* C19: every call that shows a beat invokes the callbacks registered for
\* preShowBeat, once each and in registration order, before setState runs
\* for the new beat.
C19_PreShowBeatHooksRun ==
    ShownBy(lastOp) => CallbacksBeforeSetState(lastOp) = hooks["preShowBeat"]

-----------------------------------------------------------------------------
(* C20 *)

\* The callbacks registered under a name.
Registered(name) == {hooks[name][i] : i \in 1..Len(hooks[name])}

\* C20: addHook with a name that is no function of the framework registers
\* nothing: the call logs an error and leaves the callback lists of all
\* names (and every other field) unchanged, no list is ever kept under
\* such a name, and a callback a call invokes is one registered under the
\* name of a function.
C20_UnknownPointRejected ==
    /\ \A name \in HookNames, callback \in CallbackNames :
          ~IsFunction(name)
            => addHook(Self, name, callback) = ConsoleError(Self)
    /\ \A name \in HookNames : ~IsFunction(name) => hooks[name] = <<>>
    /\ \A i \in 1..Len(lastOp.calls) :
          IsCallback(lastOp.calls[i])
            => \E name \in HookNames :
                  IsFunction(name) /\ lastOp.calls[i] \in Registered(name)

\* After init() had dispatched a registered callback, a callback was
\* offered under a name that is no function: the call logged and the lists
\* are as they were.
C20_Witness ==
    /\ lastOp.op = "addHook"
    /\ lastOp.logged
    /\ initialized
    /\ hooks["bindEvents"] = <<"cb1">>
    /\ hooks["preShowBeat"] = <<"cb2">>

-----------------------------------------------------------------------------
(* The event handlers bound by bindEvents.                                 *)

\* settings.controls.screenRatioBackwardToForward, 33.33 percent of the
\* width of the holder, in hundredths of a percent.
screenRatioBackwardToForward == 3333

\* Mutant: the click handler does not read controlsDisabled.
clickHandler_NoGuard(s, relativeX) ==
    LET s1 == IF s.settings.auto = FALSE \/ isBeatPause(s) = FALSE
              THEN IF relativeX > screenRatioBackwardToForward
                   THEN nextBeat(s, 1)
                   ELSE previousBeat(s, 1)
              ELSE s
    IN  IF s1.exc # "" THEN s1
        ELSE [unpause(s1) EXCEPT !.controlsHelpScreenShown = TRUE]

\* The click handler of the holder, for a click at relativeX (hundredths
\* of a percent of its width).  hideAllControlsHelp() only fades elements
\* out.  An exception of nextBeat() or previousBeat() leaves the handler
\* before unpause().
clickHandler(s, relativeX) ==
    IF s.controlsDisabled = TRUE THEN s
    ELSE LET s1 == IF s.settings.auto = FALSE \/ isBeatPause(s) = FALSE
                   THEN IF relativeX > screenRatioBackwardToForward
                        THEN nextBeat(s, 1)
                        ELSE previousBeat(s, 1)
                   ELSE s
         IN  IF s1.exc # "" THEN s1
             ELSE [unpause(s1) EXCEPT !.controlsHelpScreenShown = TRUE]

\* The mousedown / touchstart handler of the holder.
pressHandler(s) ==
    IF s.controlsDisabled = TRUE THEN s ELSE pause(s)

\* The directions of a swipe event: none, left, right, up, down.
SwipeDirections == {1, 2, 4, 8, 16}

\* The swipe handler: left and up advance, right and down retreat.
swipeHandler(s, direction) ==
    IF s.controlsDisabled = TRUE THEN s
    ELSE IF direction \in {2, 8} THEN nextBeat(s, 1)
    ELSE IF direction \in {4, 16} THEN previousBeat(s, 1)
    ELSE s

\* The positions of a click: the left and the right edge of the holder and
\* the two sides of the backward / forward boundary.
ClickPositions ==
    {0, screenRatioBackwardToForward, screenRatioBackwardToForward + 1, 10000}

Click(relativeX) == Call(clickHandler(Self, relativeX), "click")

Press == Call(NotePause(pressHandler(Self)), "press")

Swipe(direction) == Call(swipeHandler(Self, direction), "swipe")

\* Presses and clicks: stories, automatic or not, with no force-manual
\* threshold, whose beats may carry a skip flag, under presses and clicks
\* before and after the start, with presses held for periods of the
\* interval or, while no interval is armed, for longer than the hold
\* threshold.
HoldSettings ==
    {[auto |-> a, forceManualAfterBeat |-> MaxBeats, timePerBeat |-> d] :
        a \in BOOLEAN, d \in TimePerBeatChoices}

InitHold == \E custom \in HoldSettings : InitWith(custom)

NextHold ==
    \/ Register
    \/ Start
    \/ \E x \in ClickPositions : Click(x)
    \/ Press
    \/ storyStarted /\ IntervalCallback
    \/ timers # {} /\ Elapse(updateInterval)
    \/ Elapse(holdThreshold + 1)

SpecHold == InitHold /\ [][NextHold]_vars

\* The controls: stories, automatic or not, of beats of one period whose
\* state objects carry disableControls true, false or not at all, under
\* clicks, presses released before the next call of the interval callback,
\* swipes and beats shown by their index.
ControlsSettings ==
    {[auto |-> a, forceManualAfterBeat |-> MaxBeats,
      timePerBeat |-> updateInterval] : a \in BOOLEAN}

InitControls == \E custom \in ControlsSettings : InitWith(custom)

ControlStates == {BeatState(FALSE, dc) : dc \in {"absent", "true", "false"}}

RegisterControls ==
    /\ ~storyStarted
    /\ Len(storyBeats) < MaxBeats
    /\ \E state \in ControlStates :
          AddBeat(IdNames[Len(storyBeats) + 1], state)

NextControls ==
    \/ RegisterControls
    \/ Start
    \/ storyStarted /\ \E x \in ClickPositions : Click(x)
    \/ storyStarted /\ Press
    \/ storyStarted /\ \E d \in SwipeDirections : Swipe(d)
    \/ storyStarted /\ \E i \in 0..(Len(storyBeats) - 1) : ShowBeat(Num(i))
    \/ storyStarted /\ IntervalCallback
    \/ timers # {} /\ paused # TRUE /\ Elapse(updateInterval)

SpecControls == InitControls /\ [][NextControls]_vars

\* Pauses of a story with its indicators: an automatic story of plain
\* beats with no force-manual threshold is initialised and started, paused
\* and released between the calls of the interval callback, and advanced
\* and taken back by hand.
NextPause ==
    \/ ~initialized /\ RegisterPlain
    \/ ~initialized /\ ~storyStarted /\ InitStory
    \/ initialized /\ Start
    \/ storyStarted /\ Pause
    \/ storyStarted /\ Unpause
    \/ storyStarted /\ NextBeat(1)
    \/ storyStarted /\ PreviousBeat(1)
    \/ storyStarted /\ IntervalCallback
    \/ storyStarted /\ Elapse(updateInterval)

SpecPause == InitClock /\ [][NextPause]_vars

\* Stories without a beat duration: automatic stories constructed with
\* timePerBeat: null ("Null for no timer", 145), which the arithmetic of
\* the interval callback reads as 0.
NullTimePerBeat == 0

NoTimerSettings ==
    {[auto |-> TRUE, forceManualAfterBeat |-> f,
      timePerBeat |-> NullTimePerBeat] : f \in {1, MaxBeats}}

InitNoTimer == \E custom \in NoTimerSettings : InitWith(custom)

NextNoTimer ==
    \/ Register
    \/ Start
    \/ storyStarted /\ NextBeat(1)
    \/ storyStarted /\ PreviousBeat(1)
    \/ storyStarted /\ IntervalCallback
    \/ storyStarted /\ Elapse(updateInterval)

SpecNoTimer == InitNoTimer /\ [][NextNoTimer]_vars

\* The story left to its timer: an automatic story that ends on its last
\* beat, with no force-manual threshold in the registry, whose last beat
\* is not skip-flagged, is started at any of its beats and then only
\* paused and released; each interval sees at most one pause, released
\* after at most one period.  The interval callback is called whenever a
\* period has elapsed, at once or late, time goes on, and a pause is
\* released.
LiveSettings ==
    {[auto |-> TRUE, endStoryOnLastBeat |-> TRUE,
      forceManualAfterBeat |-> MaxBeats, startingBeat |-> Num(i),
      timePerBeat |-> d] :
        i \in 0..(MaxBeats - 1), d \in TimePerBeatChoices}

InitLive == \E custom \in LiveSettings : InitWith(custom)

StartLive ==
    /\ Len(storyBeats) > 0
    /\ ~storyBeats[Len(storyBeats)].state.skip
    /\ Start

PauseBriefly ==
    /\ storyStarted
    /\ paused = FALSE
    /\ \A t \in timers : t.pauses = 0
    /\ Pause

Release == paused = TRUE /\ Unpause

Tick == storyStarted /\ IntervalCallback

TimePasses ==
    /\ storyStarted
    /\ paused = TRUE => \A t \in timers : t.pausedTime < updateInterval
    /\ Elapse(updateInterval)

NextLive ==
    \/ Register
    \/ StartLive
    \/ PauseBriefly
    \/ Release
    \/ Tick
    \/ TimePasses

\* A call of the interval callback is due.
TickDue ==
    /\ storyStarted
    /\ \E t \in timers :
          t.due <= DateNow /\ WithinBounds(intervalCallback(Self, t))

\* Weak fairness of Tick, WF_vars(Tick), written out over states: every
\* step records its operation in lastOp and no call is due right after a
\* call, so Tick steps occur infinitely often exactly if infinitely many
\* states are the result of one.
FairTick == []<>(~TickDue) \/ []<>(lastOp.op = "interval")

SpecLive ==
    /\ InitLive
    /\ [][NextLive]_vars
    /\ WF_vars(TimePasses)
    /\ WF_vars(Release)
    /\ FairTick

-----------------------------------------------------------------------------
(* The public methods called by a project.                                 *)

\* The methods the framework calls from its own handlers are public, and a
\* project overriding or extending the framework calls them directly.
SetState(state, beatId, beatIndex) ==
    Call(setState(Self, state, beatId, beatIndex), "setState")

EnableControls == Call(enableControls(Self), "enableControls")

DisableControls == Call(disableControls(Self), "disableControls")

ShowControlsHelpScreen ==
    Call(showControlsHelpScreen(Self), "showControlsHelpScreen")

SetBeatIndicatorWidth(beatIndex, width) ==
    Call(setBeatIndicatorWidth(Self, beatIndex, width),
         "setBeatIndicatorWidth")

InitStoryBeatIndicators ==
    Call(initStoryBeatIndicators(Self), "initStoryBeatIndicators")

ShowRestartBtn == Call(showRestartBtn(Self), "showRestartBtn")

HideRestartBtn == Call(hideRestartBtn(Self), "hideRestartBtn")

ShowScrollDownCursor ==
    Call(showScrollDownCursor(Self), "showScrollDownCursor")

HideScrollDownCursor ==
    Call(hideScrollDownCursor(Self), "hideScrollDownCursor")

\* A manual story of plain beats that shows at its end the restart button
\* or the scroll-down cursor, on which a project calls the public methods
\* in any order, before and after init(): the state is set to a registered
\* beat with a state object that carries disableControls, or with none; the
\* first indicator, or one past the registry, is emptied or filled.
ProjectSettings ==
    {[auto |-> FALSE, showRestartBtn |-> r, showScrollDownCursor |-> ~r] :
        r \in BOOLEAN}

InitProject == \E custom \in ProjectSettings : InitWith(custom)

ProjectStates ==
    {BeatState(FALSE, dc) : dc \in {"true", "false"}} \cup {UndefinedState}

NextProject ==
    \/ ~initialized /\ RegisterPlain
    \/ ~initialized /\ InitStory
    \/ Start
    \/ \E state \in ProjectStates, i \in 1..Len(storyBeats) :
          SetState(state, storyBeats[i].id, i - 1)
    \/ EnableControls
    \/ DisableControls
    \/ ShowControlsHelpScreen
    \/ \E i \in {0, MaxBeats}, w \in {Empty, Full} :
          SetBeatIndicatorWidth(i, w)
    \/ InitStoryBeatIndicators
    \/ ShowRestartBtn
    \/ HideRestartBtn
    \/ ShowScrollDownCursor
    \/ HideScrollDownCursor
    \/ EndStory
    \/ storyStarted /\ Restart

SpecProject == InitProject /\ [][NextProject]_vars

-----------------------------------------------------------------------------
(* C21 *)

\* The story has ended and has not been restarted since (restart() zeroes
\* the count of endStory() runs).
EndedSinceRestart == storyEnded = TRUE /\ endStoryRuns > 0

\* C21: ended is terminal until restart.  In every state in which the
\* story has ended and has not been restarted since, neither a manual
\* advance (nextBeat()) nor a call of the interval callback changes the
\* current index.
C21_EndedIsTerminal ==
    EndedSinceRestart
        => /\ nextBeat(Self, 1).currentStoryBeatIndex = currentStoryBeatIndex
           /\ \A t \in timers :
                 intervalCallback(Self, t).currentStoryBeatIndex
                     = currentStoryBeatIndex

-----------------------------------------------------------------------------
(* C22 *)

\* C22: pause() is idempotent when already paused.  In every state in
\* which the story is paused, a second pause(), called directly or by the
\* press handler, leaves paused and the recorded instant of the start of
\* the pause as they are.
C22_PauseIdempotent ==
    paused = TRUE
        => /\ pause(Self).paused = paused
           /\ pause(Self).onPauseTimestamp = onPauseTimestamp
           /\ pressHandler(Self).paused = paused
           /\ pressHandler(Self).onPauseTimestamp = onPauseTimestamp

-----------------------------------------------------------------------------
(* C27 *)

\* C27: isBeatPause() returns false whenever no pause is outstanding, the
\* freshly constructed story included.
C27_NoPauseNoHold ==
    paused = FALSE => isBeatPause(Self) = FALSE

-----------------------------------------------------------------------------
(* C26 *)

\* What a click at relativeX navigates to, and what the click handler does
\* after it: unpause() and the help screen flag.
Navigated(s, relativeX) ==
    IF relativeX > screenRatioBackwardToForward
    THEN nextBeat(s, 1) ELSE previousBeat(s, 1)

Released(s) == [unpause(s) EXCEPT !.controlsHelpScreenShown = TRUE]

\* The press that paused the story started more than the hold threshold
\* ago.
HeldLong == paused = TRUE /\ DateNow - onPauseTimestamp > holdThreshold

\* C26: hold routing.  With the controls enabled, in automatic mode a
\* click whose press paused the story more than holdThreshold earlier
\* changes no beat and only unpauses; a click whose press lies within the
\* threshold navigates and then unpauses; in non-automatic mode every
\* click navigates and unpauses; and in all three cases paused is false
\* after the click.
C26_HoldRouting ==
    controlsDisabled = FALSE
        => \A x \in ClickPositions :
              LET r == clickHandler(Self, x) IN
              /\ (settings.auto = TRUE /\ HeldLong) => r = Released(Self)
              /\ (settings.auto = TRUE /\ paused = TRUE /\ ~HeldLong)
                    => r = Released(Navigated(Self, x))
              /\ settings.auto = FALSE => r = Released(Navigated(Self, x))
              /\ (settings.auto = FALSE \/ paused = TRUE) => r.paused = FALSE

-----------------------------------------------------------------------------
(* C30 *)

\* The fields of the object other than the history of the model.
Unchanged(r) == r = Self

\* C30: while controlsDisabled is true, a click, a press and a swipe change
\* nothing; and controlsDisabled changes only in a step that shows a beat
\* whose state object carries disableControls, becoming true for true and
\* false for false, while a step that shows a beat without the entry
\* leaves it as it is.
C30_ControlsGate ==
    /\ [](controlsDisabled = TRUE
            => /\ \A x \in ClickPositions : Unchanged(clickHandler(Self, x))
               /\ Unchanged(pressHandler(Self))
               /\ \A d \in SwipeDirections : Unchanged(swipeHandler(Self, d)))
    /\ [][/\ controlsDisabled' # controlsDisabled
             => /\ ShownBy(lastOp')
                /\ currentState'.disableControls
                     = (IF controlsDisabled' = TRUE THEN "true" ELSE "false")
          /\ (ShownBy(lastOp') /\ currentState'.disableControls = "absent")
             => controlsDisabled' = controlsDisabled]_vars

\* A click on the forward side of a beat that disabled the controls, with a
\* beat to advance to: the click showed no beat, did not unpause and did
\* not set the help screen flag.
C30_Witness ==
    /\ lastOp.op = "click"
    /\ lastOp.calls = <<>>
    /\ controlsDisabled = TRUE
    /\ currentState.disableControls = "true"
    /\ currentStoryBeatIndex < Len(storyBeats) - 1
    /\ controlsHelpScreenShown = FALSE

-----------------------------------------------------------------------------
(* C23 *)

\* The armed interval u of the next state is the interval t of this state,
\* that many time units of accumulated time later.
Continues(t, u, d) ==
    /\ u.id = t.id
    /\ u.beatIndex = t.beatIndex
    /\ u.timeElapsed = t.timeElapsed + d

\* C23: while the story is paused, a call of the interval callback adds
\* nothing to the accumulated time of its beat, changes no indicator and
\* no current beat; pause() and unpause() leave the accumulated time as it
\* is, so that after unpause() the accumulation goes on from the value it
\* had at the pause; only a call of the callback that finds the story not
\* paused adds to it (one period); and an interval with accumulated time
\* zero appears only in a step that shows a beat.
C23_PauseFreezesClock ==
    [][/\ (lastOp'.op = "interval" /\ paused = TRUE)
            => /\ \A u \in timers' : \E t \in timers : Continues(t, u, 0)
               /\ Cardinality(timers') = Cardinality(timers)
               /\ indicators' = indicators
               /\ currentStoryBeatIndex' = currentStoryBeatIndex
               /\ storyEnded' = storyEnded
       /\ lastOp'.op \in {"pause", "unpause", "elapse"}
            => /\ \A u \in timers' : \E t \in timers : Continues(t, u, 0)
               /\ Cardinality(timers') = Cardinality(timers)
       /\ \A u \in timers' :
             \/ \E t \in timers : Continues(t, u, 0)
             \/ /\ \E t \in timers : Continues(t, u, updateInterval)
                /\ lastOp'.op = "interval"
                /\ paused = FALSE
             \/ /\ u.timeElapsed = 0
                /\ ShownBy(lastOp')]_vars

\* A beat that had run for one period was paused: the call of the callback
\* that followed left its accumulated time at one period and its indicator
\* at the width of one period.
C23_Witness ==
    /\ lastOp.op = "interval"
    /\ paused = TRUE
    /\ initialized
    /\ \E t \in timers :
          /\ t.timeElapsed = updateInterval
          /\ t.pausedCalls = 1
          /\ t.beatIndex = currentStoryBeatIndex
          /\ indicators[t.beatIndex + 1]
               = Fill(updateInterval * 100, settings.timePerBeat)

-----------------------------------------------------------------------------
(* C24 *)

\* C24: once forceManualControl is true, no completion of an interval
\* changes the current beat: a call of the interval callback leaves the
\* current index, id and state as they are.  The interval of the threshold
\* beat runs to the full width of its indicator and is then cleared, with
\* no advance and no interval armed after it.
C24_ForcedManualNoAdvance ==
    [][(lastOp'.op = "interval" /\ forceManualControl = TRUE)
          => /\ currentStoryBeatIndex' = currentStoryBeatIndex
             /\ currentStoryBeatId' = currentStoryBeatId
             /\ currentState' = currentState
             /\ lastOp'.completion.done
                  => /\ timers' = {}
                     /\ lastOp'.completion.beatIndex
                          = settings.forceManualAfterBeat
                     /\ indicators'[lastOp'.completion.beatIndex + 1] = Full
                     /\ ~ShownBy(lastOp')]_vars

\* The interval of the threshold beat, the second of three, completed: the
\* story is still on that beat, with its indicator full, no interval armed
\* and the story not ended.
C24_Witness ==
    /\ lastOp.op = "interval"
    /\ lastOp.completion.done
    /\ forceManualControl = TRUE
    /\ settings.forceManualAfterBeat = 1
    /\ currentStoryBeatIndex = 1
    /\ Len(storyBeats) = 3
    /\ indicators[2] = Full
    /\ timers = {}
    /\ storyEnded = FALSE

-----------------------------------------------------------------------------
(* C28 *)

\* C28: timePerBeat null means no timer.  In an automatic story constructed
\* with timePerBeat: null, no call of an interval callback changes the
\* current beat: showing a beat never leads to a timer-driven advance.
C28_NullMeansNoTimer ==
    [][(lastOp'.op = "interval" /\ settings.timePerBeat = NullTimePerBeat)
          => /\ currentStoryBeatIndex' = currentStoryBeatIndex
             /\ ~ShownBy(lastOp')]_vars

-----------------------------------------------------------------------------
(* C29 *)

\* A call has come to its end: it returned or it threw.
Terminated(r) == r.exc \in {"", "TypeError"}

\* C29: the skip search of an advance and of a retreat terminates for
\* every registry, every assignment of skip flags and every current index
\* (in the registry or left outside it by showBeat), and the number of
\* recursive retries it makes is at most the size of the registry.
C29_SkipSearchBounded ==
    \A k \in 1..MaxStep :
        /\ Terminated(nextBeat(Self, k))
        /\ nextBeat(Self, k).retries <= Len(storyBeats)
        /\ Terminated(previousBeat(Self, k))
        /\ previousBeat(Self, k).retries <= Len(storyBeats)

\* [A(skip), B(skip), C] on C: a retreat retries twice, over B and over A,
\* and ends at index -1.
C29_Witness ==
    /\ Len(storyBeats) = 3
    /\ SkipFlag(0) /\ SkipFlag(1)
    /\ lastOp.op = "nextBeat"
    /\ currentStoryBeatIndex = 2
    /\ previousBeat(Self, 1).retries = 2
    /\ previousBeat(Self, 1).exc = "TypeError"

-----------------------------------------------------------------------------
(* C25 *)

\* The horizon of the model: an armed interval is as old as Elapse lets
\* one become, and no more time passes before its callback is called.
Horizon ==
    \E t \in timers :
        DateNow + updateInterval - t.armedAt > MaxTicks * updateInterval

\* C25: auto-advance liveness.  An automatic story left to its timer, with
\* a last beat that is not skip-flagged and no force-manual threshold among
\* its beats, once started at any beat eventually has its last beat current
\* and storyEnded true; and every step of the interval that changes the
\* beat goes to the next non-skipped beat in registration order.  A
\* behaviour whose calls are so late that an interval reaches the horizon
\* of the model is not held against the claim.
C25_AutoAdvanceLiveness ==
    /\ storyStarted
         ~> \/ currentStoryBeatIndex = LastBeat /\ storyEnded = TRUE
            \/ Horizon
    /\ [][(lastOp'.op = "interval"
             /\ currentStoryBeatIndex' # currentStoryBeatIndex)
            => /\ UnskippedAfter(currentStoryBeatIndex) # {}
               /\ currentStoryBeatIndex'
                    = Smallest(UnskippedAfter(currentStoryBeatIndex))]_vars

-----------------------------------------------------------------------------
(* C31 *)

\* C31: forceManualControl changes only by becoming true, only in a step
\* that shows the beat whose index is forceManualAfterBeat, and only in an
\* automatic story; as long as it is false (the threshold beat is
\* skip-flagged or was jumped over), every step of an automatic story that
\* shows a beat, beyond the threshold too, arms the interval of that beat.
C31_ThresholdBeatOnly ==
    [][/\ forceManualControl' # forceManualControl
            => /\ forceManualControl' = TRUE
               /\ ShownBy(lastOp')
               /\ settings.auto = TRUE
               /\ currentStoryBeatIndex' = settings.forceManualAfterBeat
       /\ (/\ ShownBy(lastOp')
           /\ settings.auto = TRUE
           /\ forceManualControl' = FALSE)
            => /\ currentStoryBeatIndex' # settings.forceManualAfterBeat
               /\ \E t \in timers' :
                     /\ timers' = {t}
                     /\ t.id = storyBeatIntervalId'
                     /\ t.beatIndex = currentStoryBeatIndex'
                     /\ t.timeElapsed = 0]_vars

\* [A, B(skip), C] with the threshold on B: the interval of A completed and
\* went over B to C, control is not forced and the interval of C is armed.
C31_Witness ==
    /\ Len(storyBeats) = 3
    /\ SkipFlag(1)
    /\ settings.auto = TRUE
    /\ settings.forceManualAfterBeat = 1
    /\ lastOp.op = "interval"
    /\ lastOp.from = 0
    /\ currentStoryBeatIndex = 2
    /\ forceManualControl = FALSE
    /\ \E t \in timers : t.beatIndex = 2

====
